---- MODULE Spec2Model ----
(***************************************************************************)
(* sv_auto_order: compilation order of SystemVerilog source files.         *)
(*                                                                         *)
(* The model starts after the parallel parse (main.rs:30-34) has produced  *)
(* the Vec `files` in input order.  A File is identified by its path       *)
(* (file.rs:103-115); the input paths are distinct, so a file is           *)
(* identified here by its index in `files`.  Module and package names are  *)
(* small naturals, one numbering per namespace.                            *)
(***************************************************************************)
EXTENDS Naturals, Integers, FiniteSets, Sequences, TLC

\* Number of input files of the general input families.
MaxFiles == 3

\* Package names of the two-file inputs.
PairPkgNames == {1, 2}

VARIABLES
    files,          \* main.rs:30  Vec<File>, in input order
    module_defs,    \* main.rs:36  module name -> defining file
    package_defs,   \* main.rs:37  package/class name -> defining file
    file_users,     \* main.rs:51  file -> set of files that depend on it
    file_deps,      \* main.rs:52  file -> set of files it depends on
    deps,           \* main.rs:54  dependency set of the file being resolved
    idx,            \* position of the `for file in &files` loops
    pc,             \* position of main
    roots,          \* main.rs:86  roots the iterator has not yielded yet
    visited_files,  \* main.rs:98
    stack,          \* activation records of print_deps_recursive
    out,            \* files printed so far, in order
    rootOrder,      \* history: roots in the order the iterator yielded them
    calls           \* history: file -> number of print_deps_recursive entries

vars == <<files, module_defs, package_defs, file_users, file_deps, deps, idx,
          pc, roots, visited_files, stack, out, rootOrder, calls>>

N == Len(files)
Files == 1..N

File(md, mu, pd, pu) ==
    [modules_defined |-> md, modules_used |-> mu,
     packages_defined |-> pd, packages_used |-> pu]

(***************************************************************************)
(* Input families.                                                         *)
(***************************************************************************)
\* MaxFiles files, file i declares module i and instantiates any set of the
\* other files' modules: every irreflexive dependency graph on MaxFiles files.
ModuleGraphInputs ==
    { [i \in 1..MaxFiles |-> File({i}, u[i], {}, {})] :
        u \in { v \in [1..MaxFiles -> SUBSET (1..MaxFiles)] :
                    \A i \in 1..MaxFiles : i \notin v[i] } }

\* MaxFiles files over one module name and one package name; a file declares
\* at most one unit and uses at most one name (duplicate definitions, uses of
\* a name the file declares itself, uses of names nothing declares, package
\* use against module use).
SmallNameInputs ==
    [1..MaxFiles -> { File(d[1], u[1], d[2], u[2]) :
                        d \in {<<{}, {}>>, <<{1}, {}>>, <<{}, {1}>>},
                        u \in {<<{}, {}>>, <<{1}, {}>>, <<{}, {1}>>} }]

\* Exactly two files over one module name and two package names.
PairInputs ==
    [1..2 -> { File(md, mu, pd, pu) :
                 md \in SUBSET {1}, mu \in SUBSET {1},
                 pd \in SUBSET PairPkgNames, pu \in SUBSET PairPkgNames }]

Inputs == ModuleGraphInputs \cup SmallNameInputs \cup PairInputs

EmptyMap == [x \in {} |-> 0]

Init ==
    /\ files \in Inputs
    /\ module_defs = EmptyMap
    /\ package_defs = EmptyMap
    /\ file_users = EmptyMap
    /\ file_deps = EmptyMap
    /\ deps = {}
    /\ idx = 1
    /\ pc = "defs"
    /\ roots = {}
    /\ visited_files = {}
    /\ stack = <<>>
    /\ out = <<>>
    /\ rootOrder = <<>>
    /\ calls = [f \in Files |-> 0]

(***************************************************************************)
(* Definition tables, main.rs:42-49.                                       *)
(***************************************************************************)
\* Variant: an entry that exists is kept (entry().or_insert()).
InsertAllKeepFirst(table, names, f) ==
    [n \in (DOMAIN table) \cup names |->
        IF n \in DOMAIN table THEN table[n] ELSE f]

\* HashMap::insert of every name of `names` with value f: a present key is
\* overwritten.
InsertAll(table, names, f) ==
    [n \in (DOMAIN table) \cup names |-> IF n \in names THEN f ELSE table[n]]

\* One iteration of `for file in &files` at main.rs:42.  Leaving the loop
\* runs main.rs:51-52.
DefineFile ==
    /\ pc = "defs"
    /\ module_defs' = InsertAll(module_defs, files[idx].modules_defined, idx)
    /\ package_defs' = InsertAll(package_defs, files[idx].packages_defined, idx)
    /\ IF idx < N
          THEN /\ idx' = idx + 1
               /\ UNCHANGED <<pc, file_users>>
          ELSE /\ idx' = 1
               /\ pc' = "packages"
               /\ file_users' = [f \in Files |-> {}]
    /\ UNCHANGED <<files, file_deps, deps, roots, visited_files, stack, out,
                   rootOrder, calls>>

(***************************************************************************)
(* Dependency resolution, main.rs:53-84.                                   *)
(***************************************************************************)
\* Variant: the `dep == file` test is missing.
NeverSameFile(dep, file) == FALSE

\* main.rs:57: a definition in the file itself is not a dependency.
SameFile(dep, file) == dep = file

\* main.rs:55-65: the files the package pass of `file` adds.
PackageTargets(file) ==
    { d \in { package_defs[n] :
                n \in files[file].packages_used \cap DOMAIN package_defs } :
        ~SameFile(d, file) }

\* Variant: the priority rule is missing.
NoPriorityRule(file, dep) == FALSE

\* main.rs:71-76: dep uses a package that `file` declares.
PriorityRule(file, dep) ==
    files[dep].packages_used \cap files[file].packages_defined # {}

\* main.rs:66-82: the files the module pass of `file` adds.
ModuleTargets(file) ==
    { d \in { module_defs[n] :
                n \in files[file].modules_used \cap DOMAIN module_defs } :
        ~SameFile(d, file) /\ ~PriorityRule(file, d) }

\* Variant: the transpose is not updated.
AddUserForgotten(users, targets, file) == users

\* file_users.get_mut(dep).unwrap().insert(file) for every dep of targets.
AddUser(users, targets, file) ==
    [f \in DOMAIN users |->
        IF f \in targets THEN users[f] \cup {file} ELSE users[f]]

\* main.rs:54-65: `let mut deps` and the loop over packages_used.
PackagePass ==
    /\ pc = "packages"
    /\ deps' = PackageTargets(idx)
    /\ file_users' = AddUser(file_users, PackageTargets(idx), idx)
    /\ pc' = "modules"
    /\ UNCHANGED <<files, module_defs, package_defs, file_deps, idx, roots,
                   visited_files, stack, out, rootOrder, calls>>

\* Variant: a root is a file without dependencies instead of without users.
IsRootNoDeps(users, f) == file_deps'[f] = {}

\* The set of roots, main.rs:86-92.
IsRoot(users, f) == users[f] = {}

\* main.rs:66-83: the loop over modules_used and file_deps.insert.  Leaving
\* the outer loop builds the roots iterator (main.rs:86-98).
ModulePass ==
    /\ pc = "modules"
    /\ file_users' = AddUser(file_users, ModuleTargets(idx), idx)
    /\ file_deps' = file_deps @@ (idx :> (deps \cup ModuleTargets(idx)))
    /\ deps' = {}
    /\ IF idx < N
          THEN /\ idx' = idx + 1
               /\ pc' = "packages"
               /\ UNCHANGED roots
          ELSE /\ idx' = idx
               /\ pc' = "traverse"
               /\ roots' = { f \in Files : IsRoot(file_users', f) }
    /\ UNCHANGED <<files, module_defs, package_defs, visited_files, stack,
                   out, rootOrder, calls>>

(***************************************************************************)
(* Traversal, main.rs:98-124.  A frame is a file and the part of its       *)
(* dependency set the `for &dep in deps` loop has not reached yet.  The    *)
(* iteration orders of the HashMap of roots and of the HashSets of         *)
(* dependencies are unspecified: any element may come next.                *)
(***************************************************************************)
\* Variant: the dependencies of a dependency are not traversed.
FrameNoRecursion(f) ==
    [file |-> f, todo |-> IF stack = <<>> THEN file_deps[f] ELSE {}]

Frame(f) == [file |-> f, todo |-> file_deps[f]]

Top == stack[Len(stack)]

\* Variant: the visited set is not consulted.
AlwaysNewlyVisited(visited, dep) == TRUE

\* visited_files.insert(dep) at main.rs:115 returns true.
NewlyVisited(visited, dep) == dep \notin visited

\* Variant: the visited set is created inside the loop over the roots.
StartRootFreshVisited ==
    /\ pc = "traverse"
    /\ stack = <<>>
    /\ \E r \in roots :
        /\ roots' = roots \ {r}
        /\ stack' = <<Frame(r)>>
        /\ rootOrder' = Append(rootOrder, r)
        /\ calls' = [calls EXCEPT ![r] = @ + 1]
    /\ visited_files' = {}
    /\ UNCHANGED <<files, module_defs, package_defs, file_users, file_deps,
                   deps, idx, pc, out>>

\* main.rs:99-100: the iterator yields the next root, print_deps_recursive
\* is called on it.
StartRoot ==
    /\ pc = "traverse"
    /\ stack = <<>>
    /\ \E r \in roots :
        /\ roots' = roots \ {r}
        /\ stack' = <<Frame(r)>>
        /\ rootOrder' = Append(rootOrder, r)
        /\ calls' = [calls EXCEPT ![r] = @ + 1]
    /\ UNCHANGED <<files, module_defs, package_defs, file_users, file_deps,
                   deps, idx, pc, visited_files, out>>

\* main.rs:114-116: the loop reaches a dependency that was not visited.
VisitDep ==
    /\ pc = "traverse"
    /\ stack # <<>>
    /\ \E dep \in Top.todo :
        /\ NewlyVisited(visited_files, dep)
        /\ visited_files' = visited_files \cup {dep}
        /\ stack' = Append([stack EXCEPT ![Len(stack)].todo = @ \ {dep}],
                           Frame(dep))
        /\ calls' = [calls EXCEPT ![dep] = @ + 1]
    /\ UNCHANGED <<files, module_defs, package_defs, file_users, file_deps,
                   deps, idx, pc, roots, out, rootOrder>>

\* Variant: the loop does not advance past a visited dependency.
SkipDepStuck ==
    /\ pc = "traverse"
    /\ stack # <<>>
    /\ \E dep \in Top.todo : ~NewlyVisited(visited_files, dep)
    /\ UNCHANGED vars

\* main.rs:114-115: the loop reaches a dependency that was visited already.
SkipDep ==
    /\ pc = "traverse"
    /\ stack # <<>>
    /\ \E dep \in Top.todo :
        /\ ~NewlyVisited(visited_files, dep)
        /\ stack' = [stack EXCEPT ![Len(stack)].todo = @ \ {dep}]
    /\ UNCHANGED <<files, module_defs, package_defs, file_users, file_deps,
                   deps, idx, pc, roots, visited_files, out, rootOrder, calls>>

\* main.rs:116-121: a recursive call returns and the caller prints the dep.
ReturnDep ==
    /\ pc = "traverse"
    /\ Len(stack) > 1
    /\ Top.todo = {}
    /\ out' = Append(out, Top.file)
    /\ stack' = SubSeq(stack, 1, Len(stack) - 1)
    /\ UNCHANGED <<files, module_defs, package_defs, file_users, file_deps,
                   deps, idx, pc, roots, visited_files, rootOrder, calls>>

\* main.rs:100-105: the call on the root returns and main prints the root.
PrintRoot ==
    /\ pc = "traverse"
    /\ Len(stack) = 1
    /\ Top.todo = {}
    /\ out' = Append(out, Top.file)
    /\ stack' = <<>>
    /\ UNCHANGED <<files, module_defs, package_defs, file_users, file_deps,
                   deps, idx, pc, roots, visited_files, rootOrder, calls>>

\* main.rs:106-108: the iterator is exhausted, main returns Ok(()).
Finish ==
    /\ pc = "traverse"
    /\ stack = <<>>
    /\ roots = {}
    /\ pc' = "done"
    /\ UNCHANGED <<files, module_defs, package_defs, file_users, file_deps,
                   deps, idx, roots, visited_files, stack, out, rootOrder,
                   calls>>

Next ==
    \/ DefineFile
    \/ PackagePass
    \/ ModulePass
    \/ StartRoot
    \/ VisitDep
    \/ SkipDep
    \/ ReturnDep
    \/ PrintRoot
    \/ Finish

Spec == Init /\ [][Next]_vars

\* main is a sequential program: a step that can be taken is taken.  The
\* runs over every dependency graph and over the two-file inputs.
GraphInit == Init /\ files \in ModuleGraphInputs \cup PairInputs

FairSpec == GraphInit /\ [][Next]_vars /\ WF_vars(Next)

(***************************************************************************)
(* Vocabulary of the properties.                                           *)
(***************************************************************************)
Resolved == pc \in {"traverse", "done"}

Emitted == { out[i] : i \in 1..Len(out) }

Count(f) == Cardinality({ i \in 1..Len(out) : out[i] = f })

\* Position of the first emission of f.
Pos(f) == CHOOSE i \in 1..Len(out) :
            out[i] = f /\ \A j \in 1..(i - 1) : out[j] # f

\* The files reachable over file_deps from the files of S, S included.
RECURSIVE ReachFrom(_)
ReachFrom(S) ==
    LET T == S \cup UNION { file_deps[f] : f \in S }
    IN  IF T = S THEN S ELSE ReachFrom(T)

Acyclic == \A f \in Files : f \notin ReachFrom(file_deps[f])

\* The transpose of file_deps, computed from file_deps alone.
Dependents(f) == { g \in Files : f \in file_deps[g] }

RootFiles == { f \in Files : Dependents(f) = {} }

\* The last file in input order that declares n, per namespace.
Last(S) == CHOOSE i \in S : \A j \in S : j <= i
ModuleDefiners(n) == { i \in Files : n \in files[i].modules_defined }
PackageDefiners(n) == { i \in Files : n \in files[i].packages_defined }

\* file uses a name whose definition-table entry is dep.
UsesPackageOf(file, dep) ==
    \E n \in files[file].packages_used \cap DOMAIN package_defs :
        package_defs[n] = dep
UsesModuleOf(file, dep) ==
    \E n \in files[file].modules_used \cap DOMAIN module_defs :
        module_defs[n] = dep

(***************************************************************************)
(* C1  Acyclic ordering: when the resolved graph is acyclic, a file is     *)
(* never emitted before one of its dependencies, and at the end both ends  *)
(* of every edge a -> b are emitted, b strictly before a, whatever order   *)
(* the roots and the dependency sets were iterated in.                     *)
(***************************************************************************)
AcyclicOrdering ==
    (Resolved /\ Acyclic) =>
        LET pos == [f \in Emitted |-> Pos(f)]
        IN  \A a \in Files : \A b \in file_deps[a] :
                /\ a \in Emitted => (b \in Emitted /\ pos[b] < pos[a])
                /\ pc = "done" => (a \in Emitted /\ b \in Emitted)

\* An acyclic run that ended with a chain a -> b -> c and a shared dependency.
AcyclicOrderingWitness ==
    /\ pc = "done"
    /\ Acyclic
    /\ \E a, b, c \in Files : b \in file_deps[a] /\ c \in file_deps[b]
    /\ \E f \in Files : Cardinality(Dependents(f)) >= 2

(***************************************************************************)
(* C2  No duplicates.  As stated: at the end every file is emitted at most *)
(* once, every file that is a dependency of two different files is emitted *)
(* exactly once, and no root was entered by the recursive traversal.       *)
(***************************************************************************)
NoDuplicatesAsStated ==
    pc = "done" =>
        /\ \A f \in Files : Count(f) <= 1
        /\ \A f \in Files : Cardinality(Dependents(f)) >= 2 => Count(f) = 1
        /\ \A f \in RootFiles : f \notin visited_files

\* C2 amended: every file is emitted at most once in every state; at the end
\* a file that is a dependency of two different files is emitted exactly once
\* when it is reachable from a root (and not at all otherwise); a root is
\* never marked visited, so only the main loop emits it.
NoDuplicates ==
    /\ \A f \in Files : Count(f) <= 1
    /\ Resolved => \A f \in RootFiles : f \notin visited_files
    /\ pc = "done" =>
          \A f \in Files : Cardinality(Dependents(f)) >= 2 =>
              Count(f) = (IF f \in ReachFrom(RootFiles) THEN 1 ELSE 0)

\* A finished run with two roots that share a dependency.
NoDuplicatesWitness ==
    /\ pc = "done"
    /\ \E f \in Files : \E r1, r2 \in RootFiles :
          /\ r1 # r2
          /\ f \in file_deps[r1] /\ f \in file_deps[r2]
          /\ Count(f) = 1

(***************************************************************************)
(* C3  Priority rule.  For distinct files A and B where B uses a package   *)
(* whose table entry is A and A uses a module whose table entry is B:      *)
(* B's package pass records B -> A, and deps holds A -> B only if A uses a *)
(* package whose table entry is B.                                         *)
(***************************************************************************)
PriorityPair(A, B) ==
    A # B /\ UsesPackageOf(B, A) /\ UsesModuleOf(A, B)

PriorityEdges ==
    \A A, B \in Files : PriorityPair(A, B) =>
        /\ (pc = "modules" /\ idx = B) => A \in deps
        /\ (pc = "modules" /\ idx = A) => (B \in deps => UsesPackageOf(A, B))
        /\ B \in DOMAIN file_deps => (A \in file_deps[B] /\ B \in file_users[A])
        /\ A \in DOMAIN file_deps =>
              (B \in file_deps[A] => UsesPackageOf(A, B))

\* As stated: and when A and B are the whole input, the output is A, B.
PriorityRuleAsStated ==
    /\ PriorityEdges
    /\ (pc = "done" /\ N = 2) =>
          \A A, B \in Files : PriorityPair(A, B) => out = <<A, B>>

\* C3 amended: the edges as above; when A and B are the whole input and A
\* uses no package whose table entry is B, the output is A followed by B.
PriorityRuleHolds ==
    /\ PriorityEdges
    /\ (pc = "done" /\ N = 2) =>
          \A A, B \in Files :
              (PriorityPair(A, B) /\ ~UsesPackageOf(A, B)) => out = <<A, B>>

\* A finished two-file run of the pattern, with output A, B.
PriorityRuleWitness ==
    /\ pc = "done"
    /\ N = 2
    /\ \E A, B \in Files :
          PriorityPair(A, B) /\ ~UsesPackageOf(A, B) /\ out = <<A, B>>

(***************************************************************************)
(* C4  Completeness: when the resolved graph is acyclic the final output   *)
(* is a permutation of the input files.                                    *)
(***************************************************************************)
Completeness ==
    (pc = "done" /\ Acyclic) =>
        /\ Len(out) = N
        /\ \A f \in Files : Count(f) = 1

\* Finished acyclic runs with an edge, with a file that uses nothing and is
\* used by nothing, or with a file whose only use is of an undefined name.
CompletenessWitness ==
    /\ pc = "done"
    /\ Acyclic
    /\ \E a \in Files : file_deps[a] # {}
    /\ \E f \in Files :
          /\ file_deps[f] = {} /\ Dependents(f) = {}
          /\ \/ files[f].modules_used \cup files[f].packages_used = {}
             \/ /\ files[f].modules_used # {}
                /\ files[f].modules_used \cap DOMAIN module_defs = {}
                /\ files[f].packages_used = {}

(***************************************************************************)
(* C5  Cycle containment: the emitted files are always among the files     *)
(* reachable from a root, and at the end they are exactly those files; a   *)
(* file reachable from no root is never emitted.                           *)
(***************************************************************************)
CycleContainment ==
    Resolved =>
        /\ DOMAIN file_deps = Files /\ DOMAIN file_users = Files
        /\ Emitted \subseteq ReachFrom(RootFiles)
        /\ pc = "done" => Emitted = ReachFrom(RootFiles)

\* A finished run that emitted something and left out a cycle.
CycleContainmentWitness ==
    /\ pc = "done"
    /\ out # <<>>
    /\ \E f, g \in Files :
          /\ f # g
          /\ g \in file_deps[f] /\ f \in file_deps[g]
          /\ f \notin Emitted /\ g \notin Emitted

(***************************************************************************)
(* C6  Termination: every run reaches the end of main; a file on the       *)
(* recursion stack below the root is already marked visited, and           *)
(* print_deps_recursive is entered at most once per file.                  *)
(***************************************************************************)
EnteredOnce ==
    /\ \A f \in Files : calls[f] <= 1
    /\ \A i \in 2..Len(stack) : stack[i].file \in visited_files
    /\ Len(out) <= N

Termination == []EnteredOnce /\ <>(pc = "done")

\* A cycle reachable from a root was traversed and the run ended.
TerminationWitness ==
    /\ pc = "done"
    /\ \E f, g \in Files :
          /\ f # g
          /\ g \in file_deps[f] /\ f \in file_deps[g]
          /\ f \in Emitted /\ g \in Emitted

(***************************************************************************)
(* C7  Root order.  As stated: the roots are traversed in input order.     *)
(***************************************************************************)
RootsInInputOrder ==
    \A i, j \in 1..Len(rootOrder) : i < j => rootOrder[i] < rootOrder[j]

\* The traversal that emits f: the first root taken that reaches f.
Owner(f) ==
    CHOOSE k \in 1..Len(rootOrder) :
        /\ f \in ReachFrom({rootOrder[k]})
        /\ \A l \in 1..(k - 1) : f \notin ReachFrom({rootOrder[l]})

\* C7 amended: the roots are traversed in the iteration order of the
\* file_users map, which need not be the input order; the traversal of a root
\* (its not yet visited dependencies, then the root) is emitted entirely
\* before the traversal of the next root begins.
RootTraversalsInSequence ==
    Resolved =>
        /\ \A i \in 1..Len(out) :
              \E k \in 1..Len(rootOrder) : out[i] \in ReachFrom({rootOrder[k]})
        /\ LET owner == [i \in 1..Len(out) |-> Owner(out[i])]
           IN  \A i, j \in 1..Len(out) : i < j =>
                  /\ owner[i] <= owner[j]
                  /\ out[i] \in RootFiles => owner[i] < owner[j]
        /\ stack = <<>> =>
              \A k \in 1..Len(rootOrder) : rootOrder[k] \in Emitted
        /\ stack # <<>> =>
              /\ stack[1].file = rootOrder[Len(rootOrder)]
              /\ \A k \in 1..(Len(rootOrder) - 1) : rootOrder[k] \in Emitted

\* A finished run of two roots taken against the input order, the second
\* finding a dependency already emitted by the first.
RootTraversalsWitness ==
    /\ pc = "done"
    /\ Len(rootOrder) >= 2
    /\ rootOrder[1] > rootOrder[2]
    /\ file_deps[rootOrder[1]] \cap file_deps[rootOrder[2]] # {}

(***************************************************************************)
(* C8  Edge soundness: in every state, every recorded edge f -> d (in      *)
(* file_deps, in the deps of the file being resolved, or in file_users)    *)
(* joins distinct input files, and f uses a name that d declares and whose *)
(* table entry is d.                                                       *)
(***************************************************************************)
SoundEdge(f, d) ==
    /\ d # f
    /\ d \in Files
    /\ \/ \E n \in files[f].packages_used :
              /\ n \in files[d].packages_defined
              /\ n \in DOMAIN package_defs /\ package_defs[n] = d
       \/ \E n \in files[f].modules_used :
              /\ n \in files[d].modules_defined
              /\ n \in DOMAIN module_defs /\ module_defs[n] = d

\* The files f is recorded to depend on so far.
RecordedDeps(f) ==
    IF f \in DOMAIN file_deps THEN file_deps[f]
    ELSE IF pc = "modules" /\ idx = f THEN deps ELSE {}

EdgeSoundness ==
    /\ \A f \in Files : \A d \in RecordedDeps(f) : SoundEdge(f, d)
    /\ \A d \in DOMAIN file_users : \A f \in file_users[d] :
          f \in Files /\ d \in RecordedDeps(f)
    /\ \A f \in DOMAIN file_deps : \A d \in file_deps[f] : f \in file_users[d]

\* Resolution is over for an input with an edge, a file that uses a name it
\* declares itself, and a file that uses a name nothing declares.
EdgeSoundnessWitness ==
    /\ Resolved
    /\ \E f \in Files : file_deps[f] # {}
    /\ \E f \in Files :
          \/ files[f].modules_used \cap files[f].modules_defined # {}
          \/ files[f].packages_used \cap files[f].packages_defined # {}
    /\ \E f \in Files :
          \/ files[f].modules_used \ DOMAIN module_defs # {}
          \/ files[f].packages_used \ DOMAIN package_defs # {}

(***************************************************************************)
(* C9  Last write wins: once the fold is over, each table holds exactly    *)
(* the declared names, each mapped to the last file in input order that    *)
(* declares it; every use resolves to that file only.                      *)
(***************************************************************************)
LastWriteWins ==
    pc # "defs" =>
        /\ DOMAIN module_defs = UNION { files[i].modules_defined : i \in Files }
        /\ DOMAIN package_defs =
              UNION { files[i].packages_defined : i \in Files }
        /\ \A n \in DOMAIN module_defs :
              module_defs[n] = Last(ModuleDefiners(n))
        /\ \A n \in DOMAIN package_defs :
              package_defs[n] = Last(PackageDefiners(n))
        /\ \A f \in DOMAIN file_deps :
              /\ file_deps[f] \subseteq
                    { Last(PackageDefiners(n)) :
                        n \in files[f].packages_used \cap DOMAIN package_defs }
                    \cup { Last(ModuleDefiners(n)) :
                        n \in files[f].modules_used \cap DOMAIN module_defs }
              /\ \A n \in files[f].packages_used \cap DOMAIN package_defs :
                    Last(PackageDefiners(n)) # f =>
                        Last(PackageDefiners(n)) \in file_deps[f]

\* Two files declare the same name, a third file uses it, and the edge goes
\* to the later definer, not the earlier.
LastWriteWinsWitness ==
    /\ Resolved
    /\ \E f, a, b \in Files : \E n \in files[f].packages_used :
          /\ a < b /\ f # a /\ f # b
          /\ n \in files[a].packages_defined
          /\ n \in files[b].packages_defined
          /\ b \in file_deps[f] /\ a \notin file_deps[f]

(***************************************************************************)
(* C10  The priority rule's skip is justified: once resolution is over,    *)
(* whenever the module pass of `current` skipped dep (dep is the table     *)
(* entry of a module current uses, and dep uses a package current          *)
(* declares), dep depends on current.                                      *)
(***************************************************************************)
SkipJustified ==
    Resolved =>
        \A current, dep \in Files :
            (current # dep /\ UsesModuleOf(current, dep)
                /\ PriorityRule(current, dep)) =>
                (current \in file_deps[dep] /\ dep \in file_users[current])
====
